---- MODULE Spec2Model ----
(***************************************************************************)
(* vue-query-filters: the filter strategies built by createFilterFactory   *)
(* (parseQueryParam / serializeQueryParam / hasValue) and the aggregate    *)
(* built by useFilters (values, options, processing flag, get / clear /    *)
(* clearAll / setOptions).                                                 *)
(*                                                                         *)
(* JavaScript strings are sequences of one-character strings.  Arrays and  *)
(* objects are mutable and live in a heap addressed by reference, so that  *)
(* two holders of the same instance see each other's in-place mutations.   *)
(***************************************************************************)
EXTENDS Integers, Sequences, FiniteSets, TLC

VARIABLES
    filters,      \* the registry: name -> strategy (fixed after construction)
    heap,         \* address -> array / object contents
    location,     \* document.location.search as an ordered list of key/value pairs
    vals,         \* aggregate -> name -> current value (scalar or reference)
    options,      \* aggregate -> options record
    hasCallback,  \* aggregate -> the hasCallback constant captured at construction
    processing,   \* aggregate -> processing.value
    pending,      \* aggregate -> number of callback promises not yet settled
    solo,         \* aggregate -> the outstanding promise is the only get() since idle
    lastCall,     \* what the last operation did (callback calls, argument, warnings)
    configured,   \* name -> the default as passed to the factory, by value
    filterProps,  \* aggregate -> the object of parsed values built at construction
    passed,       \* aggregate -> the object the newest unsettled callback was given
    rt            \* strategy round trip: input, parsed value, serialized, re-parsed

vars == <<filters, heap, location, vals, options, hasCallback, processing,
          pending, solo, lastCall, configured, filterProps, passed, rt>>

----------------------------------------------------------------------------
(* Bounds *)

MaxLen == 3        \* longest raw query value drawn for the strategy round trip
MaxItems == 2      \* longest array an in-place push may produce
MaxPending == 2    \* most callback promises outstanding at once

----------------------------------------------------------------------------
(* JavaScript values *)

Nul == [k |-> "null"]
Undef == [k |-> "undefined"]
Str(s) == [k |-> "str", s |-> s]
Num(n) == [k |-> "num", n |-> n]
Ref(a) == [k |-> "ref", addr |-> a]
Arr(items) == [k |-> "arr", items |-> items]
Obj(f, t) == [k |-> "obj", from |-> f, to |-> t]

Chars == {"a", "b", ",", "|"}
Delimiters == {<<",">>, <<"|">>}
Digits == <<"0", "1", "2", "3", "4", "5", "6", "7", "8", "9">>

\* !v
Falsy(v) ==
    \/ v.k \in {"null", "undefined"}
    \/ v.k = "str" /\ v.s = <<>>
    \/ v.k = "num" /\ v.n = 0

\* String(v) for a string or a one-digit number
String(v) == IF v.k = "num" THEN <<Digits[v.n + 1]>> ELSE v.s

\* Array.prototype.join's element conversion: null and undefined give ""
JoinItem(v) == IF v.k \in {"null", "undefined"} THEN <<>> ELSE String(v)

RECURSIVE SplitAcc(_, _, _)
SplitAcc(s, d, cur) ==
    IF s = <<>> THEN <<Str(cur)>>
    ELSE IF Head(s) = d[1] THEN <<Str(cur)>> \o SplitAcc(Tail(s), d, <<>>)
    ELSE SplitAcc(Tail(s), d, Append(cur, Head(s)))

\* value.split(delimiter), one-character delimiter
Split(value, delimiter) == SplitAcc(value.s, delimiter, <<>>)

RECURSIVE JoinSeq(_, _)
JoinSeq(items, d) ==
    IF items = <<>> THEN <<>>
    ELSE IF Len(items) = 1 THEN JoinItem(items[1])
    ELSE JoinItem(items[1]) \o d \o JoinSeq(Tail(items), d)

\* a join that keeps the first element only
JoinFirst(items, delimiter) == Str(JoinItem(items[1]))

\* items.join(delimiter)
Join(items, delimiter) == Str(JoinSeq(items, delimiter))

\* the array or object a value denotes
Deref(v, h) == IF v.k = "ref" THEN h[v.addr] ELSE v

----------------------------------------------------------------------------
(* createFilterFactory: the strategies *)

\* single(defaultValue).parseQueryParam
SingleParse(f, value) == IF Falsy(value) THEN f.defaultValue ELSE value

\* single(defaultValue).serializeQueryParam
SingleSerialize(value) == IF Falsy(value) THEN Nul ELSE Str(String(value))

\* multiple(defaultValue).parseQueryParam: the default instance itself, or a new array
MultipleParse(f, value, delimiter) ==
    IF Falsy(value) THEN f.defaultValue ELSE Arr(Split(value, delimiter))

\* a multiple serialization that joins an empty array too
MultipleSerializeJoinsEmpty(value, delimiter) ==
    IF value.k # "arr" THEN Nul ELSE Join(value.items, delimiter)

\* multiple(defaultValue).serializeQueryParam
MultipleSerialize(value, delimiter) ==
    IF value.k # "arr" \/ Len(value.items) = 0 THEN Nul
    ELSE Join(value.items, delimiter)

\* a range parse that gives the whole default as soon as one part is missing
RangeParseWhole(f, value, delimiter, h) ==
    LET parts == IF Falsy(value) THEN <<>> ELSE Split(value, delimiter)
    IN  IF Len(parts) < 2 \/ parts[1] = Str(<<>>) \/ parts[2] = Str(<<>>)
        THEN f.defaultValue
        ELSE Obj(parts[1], parts[2])

\* range(defaultValue).parseQueryParam: the default instance itself, or a new object
RangeParse(f, value, delimiter, h) ==
    IF Falsy(value) THEN f.defaultValue
    ELSE LET parts == Split(value, delimiter)
             from == parts[1]
             to == IF Len(parts) >= 2 THEN parts[2] ELSE Undef
         IN  Obj(IF ~Falsy(from) THEN from ELSE h[f.defaultValue.addr].from,
                 IF ~Falsy(to) THEN to ELSE h[f.defaultValue.addr].to)

\* range serialization that gives up as soon as one end is null
RangeSerializeEitherNull(value, delimiter) ==
    IF Falsy(value) \/ (value.from = Nul \/ value.to = Nul) THEN Nul
    ELSE Join(<<value.from, value.to>>, delimiter)

\* range(defaultValue).serializeQueryParam
RangeSerialize(value, delimiter) ==
    IF Falsy(value) \/ (value.from = Nul /\ value.to = Nul) THEN Nul
    ELSE Join(<<value.from, value.to>>, delimiter)

\* filterConfig.parseQueryParam(paramValue, delimiter)
ParseQueryParam(f, value, delimiter, h) ==
    CASE f.type = "single" -> SingleParse(f, value)
      [] f.type = "multiple" -> MultipleParse(f, value, delimiter)
      [] f.type = "range" -> RangeParse(f, value, delimiter, h)

\* filterConfig.serializeQueryParam(value, delimiter); value is the stored value
SerializeQueryParam(f, value, delimiter, h) ==
    CASE f.type = "single" -> SingleSerialize(value)
      [] f.type = "multiple" -> MultipleSerialize(Deref(value, h), delimiter)
      [] f.type = "range" -> RangeSerialize(Deref(value, h), delimiter)

\* x?.toString() === value.toString(), for a scalar x
SameString(x, value) ==
    x.k \notin {"null", "undefined"} /\ String(x) = String(value)

\* single(defaultValue).hasValue
SingleHas(filterValue, value) == SameString(filterValue, value)

\* multiple(defaultValue).hasValue: Array.prototype.includes compares strictly
MultipleHas(filterValue, value) ==
    IF filterValue.k = "arr"
    THEN \E i \in 1..Len(filterValue.items) : filterValue.items[i] = value
    ELSE FALSE

\* a range test that looks at from only
RangeHasFromOnly(filterValue, value) ==
    filterValue.k = "obj" /\ SameString(filterValue.from, value)

\* range(defaultValue).hasValue
RangeHas(filterValue, value) ==
    /\ filterValue.k = "obj"
    /\ SameString(filterValue.from, value) \/ SameString(filterValue.to, value)

\* hasValue of strategy f on a value and a string or number candidate
HasValue(f, filterValue, value, h) ==
    CASE f.type = "single" -> SingleHas(filterValue, value)
      [] f.type = "multiple" -> MultipleHas(Deref(filterValue, h), value)
      [] f.type = "range" -> RangeHas(Deref(filterValue, h), value)

----------------------------------------------------------------------------
(* The registry and the heap layout *)

\* the names a registry may declare, in declaration order
AllKeys == <<"category", "brands", "price">>
AllNames == {AllKeys[i] : i \in 1..Len(AllKeys)}

\* Object.keys(flt), in insertion order
KeysOf(flt) ==
    LET Declared(key) == key \in DOMAIN flt
    IN  SelectSeq(AllKeys, Declared)

\* Object.keys(filters) of the constructed aggregates
filterKeys == KeysOf(filters)
NameSet == DOMAIN filters
RefNames == {"brands", "price"}
Aggs == {1, 2}

\* owner 0 is the strategy (its defaultValue); owner a > 0 is aggregate a
DefaultAddr(name) == [own |-> 0, name |-> name]
FreshAddr(a, name) == [own |-> a, name |-> name]
Addrs == [own : {0} \cup Aggs, name : RefNames]
Unallocated == [k |-> "unallocated"]

FilterType(name) ==
    CASE name = "category" -> "single"
      [] name = "brands" -> "multiple"
      [] name = "price" -> "range"

\* factory.single(d) / factory.multiple(d) / factory.range(d): the strategy keeps
\* the very instance it was given as defaultValue
MakeFilter(name, default, keyTransformer) ==
    [type |-> FilterType(name),
     defaultValue |-> IF default.k \in {"arr", "obj"}
                      THEN Ref(DefaultAddr(name)) ELSE default,
     keyTransformer |-> keyTransformer]

\* the key transformers a factory is created with: none given (the identity), or
\* the README's key => `filter[${key}]`
KeyTransformers == {"identity", "wrap"}

\* `filter[${key}]`
Wrap(key) ==
    CASE key = "category" -> "filter[category]"
      [] key = "brands" -> "filter[brands]"
      [] key = "price" -> "filter[price]"
      [] OTHER -> "filter[other]"

\* a caller's own transformKey, as a custom filter object may carry: `own[${key}]`
Own(key) ==
    CASE key = "category" -> "own[category]"
      [] key = "brands" -> "own[brands]"
      [] key = "price" -> "own[price]"
      [] OTHER -> "own[other]"

\* transformKey(key) of strategy f: keyTransformer(key)
TransformKey(f, key) ==
    CASE f.keyTransformer = "wrap" -> Wrap(key)
      [] f.keyTransformer = "own" -> Own(key)
      [] OTHER -> key

\* a filter object written by the caller: the contract of single, and a
\* transformKey of its own
SuppliedFilter(default) ==
    [type |-> "single", defaultValue |-> default, keyTransformer |-> "own",
     supplied |-> TRUE]

\* custom that returns the filter as it was supplied
CustomAsSupplied(filter, keyTransformer) == filter

\* factory.custom(filter): { ...filter, transformKey }
Custom(filter, keyTransformer) == [filter EXCEPT !.keyTransformer = keyTransformer]

\* the strategy of a name: category may be a custom filter
MakeStrategy(name, default, keyTransformer, customCategory) ==
    IF customCategory /\ name = "category"
    THEN Custom(SuppliedFilter(default), keyTransformer)
    ELSE MakeFilter(name, default, keyTransformer)

\* a registry declaring no filter
EmptyRegistry == [name \in {} |-> Nul]

\* README defaults, and a registry with non-empty defaults
Registries ==
    { [category |-> Nul, brands |-> Arr(<<>>), price |-> Obj(Nul, Nul)],
      [category |-> Str(<<"a">>), brands |-> Arr(<<Str(<<"a">>)>>),
       price |-> Obj(Num(1), Nul)] }

Pair(key, value) == [key |-> key, value |-> value]

\* the query strings the page may be at
Queries ==
    { <<>>,
      <<Pair("category", <<"a">>), Pair("brands", <<"a", ",", "b">>)>>,
      <<Pair("price", <<"a", ",", "b">>), Pair("brands", <<"b">>)>>,
      <<Pair("brands", <<"b">>), Pair("other", <<"a">>),
        Pair("category", <<"b">>), Pair("brands", <<"a">>)>> }

RECURSIVE QueryGet(_, _)
\* URLSearchParams.get: the first value of the key, or null
QueryGet(loc, key) ==
    IF loc = <<>> THEN Nul
    ELSE IF Head(loc).key = key THEN Str(Head(loc).value)
    ELSE QueryGet(Tail(loc), key)

----------------------------------------------------------------------------
(* useFilters: options *)

CallbackKinds == {"sync", "async", "throw"}

\* { delimiter: ',', preserveQueryOrder: true }; a missing onApply reads as undefined
DefaultOptions ==
    [delimiter |-> <<",">>, preserveQueryOrder |-> TRUE, onApply |-> "undefined"]

\* { ...o, ...p }
Merge(o, p) ==
    [f \in DOMAIN o \cup DOMAIN p |-> IF f \in DOMAIN p THEN p[f] ELSE o[f]]

\* options.onApply
OnApply(o) == o.onApply

NoOptions == [f \in {} |-> TRUE]

InitialOptionsSet ==
    {NoOptions, [onApply |-> "async"], [delimiter |-> <<"|">>, onApply |-> "sync"]}

CallbackOptions == {[onApply |-> c] : c \in CallbackKinds \cup {"undefined"}}

FormatOptions ==
    {[delimiter |-> d] : d \in Delimiters}
    \cup {[preserveQueryOrder |-> b] : b \in BOOLEAN}

NewOptionsSet == CallbackOptions \cup FormatOptions

----------------------------------------------------------------------------
(* useFilters: construction *)

\* what the aggregate stores for a parse result: a new array or object gets the
\* aggregate's own address, the default instance is stored as it is
Stored(a, name, parsed) ==
    IF parsed.k \in {"arr", "obj"} THEN Ref(FreshAddr(a, name)) ELSE parsed

\* a parse of the parameter found under the name itself
ParsedPropRawKey(flt, h, loc, o, key) ==
    ParseQueryParam(flt[key], QueryGet(loc, key), o.delimiter, h)

\* carry[key] = filterConfig.parseQueryParam(queryParams.get(transformKey(key)), delimiter)
ParsedProp(flt, h, loc, o, key) ==
    ParseQueryParam(flt[key], QueryGet(loc, TransformKey(flt[key], key)), o.delimiter, h)

FilterProps(a, flt, h, loc, o) ==
    [key \in DOMAIN flt |-> Stored(a, key, ParsedProp(flt, h, loc, o, key))]

\* the heap holding the defaults of registry reg
DefaultHeap(reg) ==
    [x \in Addrs |-> IF x.own = 0 /\ x.name \in DOMAIN reg
                     THEN reg[x.name] ELSE Unallocated]

\* the heap after the aggregates were constructed
ConstructedHeap(reg, flt, loc, opts) ==
    LET h0 == DefaultHeap(reg)
    IN  [x \in Addrs |->
            IF x.own = 0 \/ x.name \notin DOMAIN reg THEN h0[x]
            ELSE LET parsed == ParsedProp(flt, h0, loc, opts[x.own], x.name)
                 IN  IF parsed.k \in {"arr", "obj"} THEN parsed ELSE Unallocated]

NoCall ==
    [op |-> "none", agg |-> 0, keys |-> <<>>, shouldGet |-> FALSE, calls |-> 0,
     arg |-> <<>>, kind |-> "none", procAtCall |-> FALSE,
     warned |-> FALSE, threw |-> FALSE, cand |-> Nul, result |-> FALSE,
     newOptions |-> NoOptions]

NoRoundTrip ==
    [name |-> "category", raw |-> Nul, d |-> <<",">>, phase |-> "off",
     v |-> Undef, s |-> Undef, v2 |-> Undef]

\* both aggregates are built from the same registry flt at the same location
ConstructedFrom(flt, reg, loc, opts) ==
        /\ configured = reg
        /\ filters = flt
        /\ location = loc
        /\ options = [a \in Aggs |-> Merge(DefaultOptions, opts[a])]
        /\ heap = ConstructedHeap(reg, flt, loc, options)
        /\ filterProps =
              [a \in Aggs |-> FilterProps(a, flt, DefaultHeap(reg), loc, options[a])]
        /\ vals = filterProps
        /\ passed = [a \in Aggs |-> <<>>]
        /\ hasCallback = [a \in Aggs |-> OnApply(options[a]) # "undefined"]
        /\ processing = [a \in Aggs |-> FALSE]
        /\ pending = [a \in Aggs |-> 0]
        /\ solo = [a \in Aggs |-> FALSE]
        /\ lastCall = NoCall

\* a registry of single, multiple and range strategies of one factory
Constructed(reg, loc, opts, keyTransformer) ==
    ConstructedFrom([name \in DOMAIN reg |-> MakeFilter(name, reg[name], keyTransformer)],
                    reg, loc, opts)

\* the page's aggregate, constructed with the README's registry
Init ==
    /\ \E loc \in Queries, io \in InitialOptionsSet :
          Constructed([category |-> Nul, brands |-> Arr(<<>>), price |-> Obj(Nul, Nul)],
                      loc, [a \in Aggs |-> IF a = 1 THEN io ELSE NoOptions], "identity")
    /\ rt = NoRoundTrip

\* any registry, with no callback or a synchronous one
InitValues ==
    /\ \E reg \in Registries \cup {EmptyRegistry}, loc \in Queries,
          io \in {NoOptions, [onApply |-> "sync"]} :
          Constructed(reg, loc, [a \in Aggs |-> IF a = 1 THEN io ELSE NoOptions],
                      "identity")
    /\ rt = NoRoundTrip

----------------------------------------------------------------------------
(* useFilters: query objects (ordered lists of key/value pairs) *)

HasKey(obj, key) == \E i \in 1..Len(obj) : obj[i].key = key

ValueOf(obj, key) == obj[CHOOSE i \in 1..Len(obj) : obj[i].key = key].value

\* obj[key] = value: an existing key keeps its position
SetKey(obj, key, value) ==
    IF HasKey(obj, key)
    THEN [i \in 1..Len(obj) |-> IF obj[i].key = key THEN Pair(key, value) ELSE obj[i]]
    ELSE Append(obj, Pair(key, value))

RECURSIVE ReduceKeys(_, _, _, _, _, _)
\* filterKeys.reduce(...) of toQueryObject, from the keys still to visit
ReduceKeys(keys, queryObject, v, h, o, transformKeys) ==
    IF keys = <<>> THEN queryObject
    ELSE LET key == Head(keys)
             paramValue == SerializeQueryParam(filters[key], v[key], o.delimiter, h)
             objectKey == IF transformKeys THEN TransformKey(filters[key], key) ELSE key
         IN  ReduceKeys(Tail(keys),
                        IF ~Falsy(paramValue)
                        THEN SetKey(queryObject, objectKey, paramValue.s)
                        ELSE queryObject,
                        v, h, o, transformKeys)

\* toQueryObject that never transforms a key
ToQueryObjectRawKeys(v, h, o, transformKeys) ==
    ReduceKeys(filterKeys, <<>>, v, h, o, FALSE)

\* toQueryObject(transformKeys) on values v, heap h, options o
ToQueryObject(v, h, o, transformKeys) ==
    ReduceKeys(filterKeys, <<>>, v, h, o, transformKeys)

\* property names every object literal inherits from Object.prototype
PrototypeKeys == {"toString", "constructor"}

\* a method inherited from Object.prototype, as a property value
Inherited == <<"function">>

\* key in obj: own and inherited properties
In(obj, key) == HasKey(obj, key) \/ key \in PrototypeKeys

\* obj[key], for a key that is in obj
Lookup(obj, key) == IF HasKey(obj, key) THEN ValueOf(obj, key) ELSE Inherited

RECURSIVE OrderedFrom(_, _, _)
\* new URLSearchParams(document.location.search).forEach(...)
OrderedFrom(loc, orderedObject, queryObject) ==
    IF loc = <<>> THEN orderedObject
    ELSE LET key == Head(loc).key
         IN  OrderedFrom(Tail(loc),
                         IF In(queryObject, key)
                         THEN SetKey(orderedObject, key, Lookup(queryObject, key))
                         ELSE orderedObject,
                         queryObject)

RECURSIVE Assign(_, _)
\* Object.assign(target, source)
Assign(target, source) ==
    IF source = <<>> THEN target
    ELSE Assign(SetKey(target, Head(source).key, Head(source).value), Tail(source))

\* toOrderedQueryObject that assigns the keys of the query string last
ToOrderedQueryObjectRegistryFirst(v, h, o, loc, transformKeys) ==
    LET queryObject == ToQueryObject(v, h, o, transformKeys)
    IN  Assign(queryObject, OrderedFrom(loc, <<>>, queryObject))

\* toOrderedQueryObject(transformKeys)
ToOrderedQueryObject(v, h, o, loc, transformKeys) ==
    LET queryObject == ToQueryObject(v, h, o, transformKeys)
    IN  Assign(OrderedFrom(loc, <<>>, queryObject), queryObject)

----------------------------------------------------------------------------
(* useFilters: get() *)

\* get() that always passes the registry-ordered object
GetArgUnordered(v, h, o, loc) == ToQueryObject(v, h, o, TRUE)

\* the argument get() hands to options.onApply
GetArg(v, h, o, loc) ==
    IF o.preserveQueryOrder THEN ToOrderedQueryObject(v, h, o, loc, TRUE)
    ELSE ToQueryObject(v, h, o, TRUE)

\* get() that does not raise the flag before the callback
ProcessingAtCallKept(before) == before

\* processing.value while options.onApply runs (line 42)
ProcessingAtCall(before) == TRUE

\* get() that never resets the flag itself
ProcessingAfterCallKept(kind, atCall) == atCall

\* processing.value when get() is left after a callback of this kind: a promise
\* leaves it to finally(), a plain return resets it, an exception skips the reset
ProcessingAfterCall(kind, atCall) ==
    IF kind = "sync" THEN FALSE ELSE atCall

\* get() that raises the flag before it looks for the callback
GetEffectFlagFirst(a, v) ==
    LET kind == OnApply(options[a])
    IN  [processing |-> IF kind = "sync" THEN FALSE ELSE TRUE,
         pending |-> IF kind = "async" THEN pending[a] + 1 ELSE pending[a],
         solo |-> kind = "async" /\ pending[a] = 0,
         calls |-> IF kind # "undefined" THEN 1 ELSE 0,
         arg |-> IF kind # "undefined"
                 THEN IF options[a].preserveQueryOrder
                      THEN ToOrderedQueryObject(v, heap, options[a], location, TRUE)
                      ELSE ToQueryObject(v, heap, options[a], TRUE)
                 ELSE <<>>,
         kind |-> IF kind # "undefined" THEN kind ELSE "none",
         procAtCall |-> kind # "undefined",
         warned |-> kind = "undefined",
         threw |-> kind = "throw"]

\* get() on aggregate a whose values are v: what it does to the aggregate
GetEffect(a, v) ==
    LET kind == OnApply(options[a])
        atCall == ProcessingAtCall(processing[a])
    IN  IF kind # "undefined"
        THEN [processing |-> ProcessingAfterCall(kind, atCall),
              pending |-> IF kind = "async" THEN pending[a] + 1 ELSE pending[a],
              solo |-> kind = "async" /\ pending[a] = 0,
              calls |-> 1,
              arg |-> GetArg(v, heap, options[a], location),
              kind |-> kind,
              procAtCall |-> atCall,
              warned |-> FALSE,
              threw |-> kind = "throw"]
        ELSE [processing |-> processing[a],
              pending |-> pending[a],
              solo |-> solo[a],
              calls |-> 0,
              arg |-> <<>>,
              kind |-> "none",
              procAtCall |-> FALSE,
              warned |-> TRUE,
              threw |-> FALSE]

\* no callback run: clear() that does not reach get()
NoGet(a) ==
    [processing |-> processing[a], pending |-> pending[a], solo |-> solo[a],
     calls |-> 0, arg |-> <<>>, kind |-> "none", procAtCall |-> FALSE,
     warned |-> FALSE, threw |-> FALSE]

\* the record of an operation that ran effect e
Called(op, a, keys, shouldGet, e, threw) ==
    [op |-> op, agg |-> a, keys |-> keys, shouldGet |-> shouldGet,
     calls |-> e.calls, arg |-> e.arg, kind |-> e.kind,
     procAtCall |-> e.procAtCall,
     warned |-> e.warned, threw |-> threw, cand |-> Nul, result |-> FALSE,
     newOptions |-> NoOptions]

\* the object built for the callback of an effect: a callback that returns a
\* promise holds it while the promise is unsettled
PassedTo(a, e) == IF e.kind = "async" THEN e.arg ELSE passed[a]

ApplyEffect(a, e) ==
    /\ processing' = [processing EXCEPT ![a] = e.processing]
    /\ pending' = [pending EXCEPT ![a] = e.pending]
    /\ solo' = [solo EXCEPT ![a] = e.solo]
    /\ passed' = [passed EXCEPT ![a] = PassedTo(a, e)]

\* filters.get()
Get(a) ==
    /\ OnApply(options[a]) = "async" => pending[a] < MaxPending
    /\ LET e == GetEffect(a, vals[a])
       IN  /\ ApplyEffect(a, e)
           /\ lastCall' = Called("get", a, <<>>, FALSE, e, e.threw)
    /\ UNCHANGED <<filters, heap, location, vals, options, hasCallback, configured,
                   filterProps, rt>>

\* a settlement that clears the flag only when nothing else is outstanding
SettleCounted(a, outcome) ==
    /\ pending[a] > 0
    /\ processing' = [processing EXCEPT ![a] = IF pending[a] = 1 THEN FALSE ELSE @]
    /\ pending' = [pending EXCEPT ![a] = @ - 1]
    /\ solo' = [solo EXCEPT ![a] = FALSE]
    /\ passed' = [passed EXCEPT ![a] = IF pending[a] = 1 THEN <<>> ELSE @]
    /\ lastCall' = [NoCall EXCEPT !.op = "settle", !.agg = a, !.kind = outcome]
    /\ UNCHANGED <<filters, heap, location, vals, options, hasCallback, configured,
                   filterProps, rt>>

\* result.finally(() => { processing.value = false }): a promise settles
Settle(a, outcome) ==
    /\ pending[a] > 0
    /\ processing' = [processing EXCEPT ![a] = FALSE]
    /\ pending' = [pending EXCEPT ![a] = @ - 1]
    /\ solo' = [solo EXCEPT ![a] = FALSE]
    /\ passed' = [passed EXCEPT ![a] = IF pending[a] = 1 THEN <<>> ELSE @]
    /\ lastCall' = [NoCall EXCEPT !.op = "settle", !.agg = a, !.kind = outcome]
    /\ UNCHANGED <<filters, heap, location, vals, options, hasCallback, configured,
                   filterProps, rt>>

----------------------------------------------------------------------------
(* useFilters: clear(), clearAll(), setOptions() and the caller's writes *)

\* the key lists clear() is called with; a single key is the list of that key
ClearKeys ==
    { <<>>, <<"brands">>, <<"price", "category">>, <<"brands", "other", "price">> }

\* this[key] = filters[key].defaultValue
ResetValue(key) == filters[key].defaultValue

\* the names of a key list
KeySet(keys) == {keys[i] : i \in 1..Len(keys)}

\* a loop that stores undefined under a key that is not registered
ClearLoopAddsKey(v, keys) ==
    [vals |-> [n \in DOMAIN v \cup KeySet(keys) |->
                  IF n \notin KeySet(keys) THEN v[n]
                  ELSE IF n \in NameSet THEN ResetValue(n) ELSE Undef],
     threw |-> FALSE]

RECURSIVE ClearLoop(_, _)
\* filtersToClear.forEach(...): reading defaultValue of an unregistered key throws
\* a TypeError, which ends the loop with the earlier keys already reset
ClearLoop(v, keys) ==
    IF keys = <<>> THEN [vals |-> v, threw |-> FALSE]
    ELSE IF Head(keys) \notin NameSet THEN [vals |-> v, threw |-> TRUE]
    ELSE ClearLoop([v EXCEPT ![Head(keys)] = ResetValue(Head(keys))], Tail(keys))

\* if (hasCallback && shouldGet)
ClearCallsGet(a, shouldGet) == hasCallback[a] /\ shouldGet

\* a list that is never taken to be empty
EmptyListNever(keys) == FALSE

\* if (filtersToClear.length === 0) return
EmptyList(keys) == Len(keys) = 0

\* clear(filterKey, shouldGet)
ClearBody(op, a, keys, shouldGet) ==
    IF EmptyList(keys)
    THEN /\ lastCall' = Called(op, a, keys, shouldGet, NoGet(a), FALSE)
         /\ UNCHANGED <<vals, processing, pending, solo, passed>>
    ELSE LET r == ClearLoop(vals[a], keys)
             e == IF ~r.threw /\ ClearCallsGet(a, shouldGet)
                  THEN GetEffect(a, r.vals) ELSE NoGet(a)
         IN  /\ (e.kind = "async") => pending[a] < MaxPending
             /\ vals' = [vals EXCEPT ![a] = r.vals]
             /\ ApplyEffect(a, e)
             /\ lastCall' = Called(op, a, keys, shouldGet, e, r.threw \/ e.threw)

Clear(a, keys, shouldGet) ==
    /\ ClearBody("clear", a, keys, shouldGet)
    /\ UNCHANGED <<filters, heap, location, options, hasCallback, configured,
                   filterProps, rt>>

\* clearAll(): this.clear(filterKeys, true)
ClearAll(a) ==
    /\ ClearBody("clearAll", a, filterKeys, TRUE)
    /\ UNCHANGED <<filters, heap, location, options, hasCallback, configured,
                   filterProps, rt>>

\* setOptions that also ends the processing state
SetOptionsResets(a, newOptions) ==
    /\ options' = [options EXCEPT ![a] = Merge(@, newOptions)]
    /\ processing' = [processing EXCEPT ![a] = FALSE]
    /\ lastCall' = [NoCall EXCEPT !.op = "setOptions", !.agg = a,
                                  !.newOptions = newOptions]
    /\ UNCHANGED <<filters, heap, location, vals, hasCallback, pending,
                   solo, configured, filterProps, passed, rt>>

\* setOptions that replaces the options by the defaults and the new ones
SetOptionsReplace(a, newOptions) ==
    /\ options' = [options EXCEPT ![a] = Merge(DefaultOptions, newOptions)]
    /\ lastCall' = [NoCall EXCEPT !.op = "setOptions", !.agg = a,
                                  !.newOptions = newOptions]
    /\ UNCHANGED <<filters, heap, location, vals, hasCallback, processing, pending,
                   solo, configured,
                   filterProps, passed, rt>>

\* setOptions(newOptions)
SetOptions(a, newOptions) ==
    /\ options' = [options EXCEPT ![a] = Merge(@, newOptions)]
    /\ lastCall' = [NoCall EXCEPT !.op = "setOptions", !.agg = a,
                                  !.newOptions = newOptions]
    /\ UNCHANGED <<filters, heap, location, vals, hasCallback, processing, pending,
                   solo, configured,
                   filterProps, passed, rt>>

\* the values the caller assigns to a filter: filters.name = value
NewValues(name) ==
    CASE name = "category" -> {Nul, Str(<<"b">>)}
      [] name = "brands" -> {Arr(<<Str(<<"b">>)>>)}
      [] name = "price" -> {Obj(Str(<<"a">>), Str(<<"b">>))}

\* filters.name = value, value a scalar or a newly created array / object
SetValue(a, name, value) ==
    /\ vals' = [vals EXCEPT ![a][name] = Stored(a, name, value)]
    /\ heap' = IF value.k \in {"arr", "obj"}
               THEN [heap EXCEPT ![FreshAddr(a, name)] = value] ELSE heap
    /\ lastCall' = [NoCall EXCEPT !.op = "set", !.agg = a, !.keys = <<name>>]
    /\ UNCHANGED <<filters, location, options, hasCallback, processing, pending,
                   solo, configured,
                   filterProps, passed, rt>>

\* filters.brands.push(item): in place, on whatever instance the value is
Push(a, item) ==
    /\ "brands" \in NameSet
    /\ vals[a].brands.k = "ref"
    /\ Len(heap[vals[a].brands.addr].items) < MaxItems
    /\ heap' = [heap EXCEPT ![vals[a].brands.addr].items = Append(@, item)]
    /\ lastCall' = [NoCall EXCEPT !.op = "push", !.agg = a, !.keys = <<"brands">>]
    /\ UNCHANGED <<filters, location, vals, options, hasCallback, processing,
                   pending, solo, configured,
                   filterProps, passed, rt>>

\* filters.price.from = value: in place, on whatever instance the value is
SetFrom(a, value) ==
    /\ "price" \in NameSet
    /\ vals[a].price.k = "ref"
    /\ heap[vals[a].price.addr].from # value
    /\ heap' = [heap EXCEPT ![vals[a].price.addr].from = value]
    /\ lastCall' = [NoCall EXCEPT !.op = "setFrom", !.agg = a, !.keys = <<"price">>]
    /\ UNCHANGED <<filters, location, vals, options, hasCallback, processing,
                   pending, solo, configured,
                   filterProps, passed, rt>>

\* toSearchParams(): new URLSearchParams(this.toQueryObject()), as the list of
\* key/value pairs a page at that query string reads
ToSearchParams(a) == ToQueryObject(vals[a], heap, options[a], TRUE)

\* the values of an aggregate constructed from the same registry with the options
\* of aggregate a, on a page at query string loc
ConstructedAt(a, loc) ==
    [name \in NameSet |-> Deref(ParsedProp(filters, heap, loc, options[a], name), heap)]

\* data(): return filterProps, the object built at construction; the aggregate's
\* own properties were copied from it ({ ...filterProps }) and are assigned apart
Data(a) == filterProps[a]

\* the names has() is called with, one of them not registered
HasNames == AllNames \cup {"other"}

\* the candidates has() is called with
Candidates == {Str(<<"b">>), Num(1)}

\* has(filter, value): filters[filter].hasValue(this[filter], value) ?? false;
\* for a name that is not registered filters[filter] is undefined and reading
\* hasValue of it throws a TypeError
Has(a, name, value) ==
    /\ lastCall' =
          IF name \notin NameSet
          THEN [NoCall EXCEPT !.op = "has", !.agg = a, !.keys = <<name>>,
                              !.cand = value, !.threw = TRUE]
          ELSE [NoCall EXCEPT !.op = "has", !.agg = a, !.keys = <<name>>,
                              !.cand = value,
                              !.result = HasValue(filters[name], vals[a][name],
                                                  value, heap)]
    /\ UNCHANGED <<filters, heap, location, vals, options, hasCallback, processing,
                   pending, solo, configured,
                   filterProps, passed, rt>>

----------------------------------------------------------------------------
(* The aggregate under test is aggregate 1; aggregate 2 is a second aggregate  *)
(* built from the same registry, which only holds its values.                   *)

Acting == {1}

\* the apply lifecycle: get, settlement, clear, clearAll, setOptions
Next ==
    \E a \in Acting :
        \/ Get(a)
        \/ \E outcome \in {"resolved", "rejected"} : Settle(a, outcome)
        \/ \E keys \in ClearKeys, shouldGet \in BOOLEAN : Clear(a, keys, shouldGet)
        \/ ClearAll(a)
        \/ \E newOptions \in NewOptionsSet : SetOptions(a, newOptions)

Spec == Init /\ [][Next]_vars

\* the apply lifecycle when every promise a callback returned settles: the
\* finally() handler of line 47 runs once its promise is settled
SpecLive ==
    Init /\ [][Next]_vars
         /\ WF_vars(\E outcome \in {"resolved", "rejected"} : Settle(1, outcome))

\* the values: clear, clearAll, the caller's assignments and in-place mutations,
\* and a change of the delimiter
NextValues ==
    \E a \in Acting :
        \/ Get(a)
        \/ \E keys \in ClearKeys, shouldGet \in BOOLEAN : Clear(a, keys, shouldGet)
        \/ ClearAll(a)
        \/ \E name \in NameSet : \E value \in NewValues(name) : SetValue(a, name, value)
        \/ Push(a, Str(<<"b">>))
        \/ SetFrom(a, Str(<<"b">>))
        \/ \E d \in Delimiters : SetOptions(a, [delimiter |-> d])

SpecValues == InitValues /\ [][NextValues]_vars

\* a registry of a single and a multiple filter
MutateRegistry == [category |-> Nul, brands |-> Arr(<<>>)]

\* the query strings the page of that aggregate may be at
MutateQueries ==
    { <<>>, <<Pair("brands", <<"a">>), Pair("category", <<"a">>)>> }

\* an aggregate whose callback returns a promise
InitMutate ==
    /\ \E loc \in MutateQueries :
          Constructed(MutateRegistry, loc,
                      [a \in Aggs |-> IF a = 1 THEN [onApply |-> "async"] ELSE NoOptions],
                      "identity")
    /\ rt = NoRoundTrip

\* the options the caller sets while a callback is outstanding
MutateOptions ==
    {[delimiter |-> <<"|">>], [preserveQueryOrder |-> FALSE], [onApply |-> "undefined"],
     [onApply |-> "async"]}

\* the caller's writes between a get() and the settlement of its promise
NextMutate ==
    \E a \in Acting :
        \/ Get(a)
        \/ \E outcome \in {"resolved", "rejected"} : Settle(a, outcome)
        \/ \E name \in NameSet : \E value \in NewValues(name) : SetValue(a, name, value)
        \/ Push(a, Str(<<"b">>))
        \/ \E newOptions \in MutateOptions : SetOptions(a, newOptions)

SpecMutate == InitMutate /\ [][NextMutate]_vars

\* the query strings the page may be at, among them one with transformed keys
\* and one with a key that names a method of Object.prototype
AmbientQueries ==
    Queries \cup
    { <<Pair("filter[brands]", <<"b", ",", "a">>), Pair("brands", <<"a">>),
        Pair("filter[category]", <<"a">>)>>,
      <<Pair("price", <<"a">>), Pair("toString", <<"a">>)>> }

\* either registry under either key transformer, at any of the query strings;
\* the second aggregate is constructed with the delimiter "|"
InitQuery ==
    /\ \E reg \in Registries, loc \in AmbientQueries, kt \in KeyTransformers :
          Constructed(reg, loc,
                      [a \in Aggs |-> IF a = 1 THEN NoOptions
                                      ELSE [delimiter |-> <<"|">>]],
                      kt)
    /\ rt = NoRoundTrip

\* reading the aggregate: has, between the caller's assignments and mutations
NextQuery ==
    \E a \in Acting :
        \/ \E name \in NameSet : \E value \in NewValues(name) : SetValue(a, name, value)
        \/ SetValue(a, "brands", Arr(<<Str(<<>>)>>))
        \/ Push(a, Str(<<"b">>))
        \/ SetFrom(a, Str(<<"b">>))
        \/ \E d \in Delimiters : SetOptions(a, [delimiter |-> d])
        \/ \E name \in HasNames, value \in Candidates : Has(a, name, value)

SpecQuery == InitQuery /\ [][NextQuery]_vars

\* the page goes to another query string (history.pushState, a router): nothing of
\* the aggregate runs, document.location.search reads differently from then on
Navigate(loc) ==
    /\ loc # location
    /\ location' = loc
    /\ lastCall' = [NoCall EXCEPT !.op = "navigate"]
    /\ UNCHANGED <<filters, heap, vals, options, hasCallback, processing, pending,
                   solo, configured, filterProps, passed, rt>>

\* the key lists clear is called with while the page navigates
LocationClearKeys == {<<"brands">>, <<"price", "category">>}

\* the aggregate while the page navigates: clear, clearAll, a change of the
\* delimiter and has, between changes of the query string
NextLocation ==
    \/ \E loc \in AmbientQueries : Navigate(loc)
    \/ \E a \in Acting :
          \/ \E keys \in LocationClearKeys : Clear(a, keys, TRUE)
          \/ ClearAll(a)
          \/ \E d \in Delimiters : SetOptions(a, [delimiter |-> d])
          \/ \E name \in {"brands", "price"} : Has(a, name, Str(<<"b">>))

\* the registries, and one with numeric defaults, a falsy one among them
LocationRegistries ==
    Registries \cup
    { [category |-> Num(0), brands |-> Arr(<<Num(5), Str(<<"b">>)>>),
       price |-> Obj(Nul, Num(5))] }

\* any registry, category being a single or a custom filter, under either key
\* transformer and delimiter, at any of the query strings
InitLocation ==
    /\ \E reg \in LocationRegistries, loc \in AmbientQueries, kt \in KeyTransformers,
          customCategory \in BOOLEAN, io \in {NoOptions, [delimiter |-> <<"|">>]} :
          ConstructedFrom([name \in DOMAIN reg |->
                              MakeStrategy(name, reg[name], kt, customCategory)],
                          reg, loc,
                          [a \in Aggs |-> IF a = 1 THEN io
                                          ELSE [delimiter |-> <<"|">>]])
    /\ rt = NoRoundTrip

SpecLocation == InitLocation /\ [][NextLocation]_vars

----------------------------------------------------------------------------
(* The strategies alone: parse a raw query value, serialize the result, parse *)
(* the serialization again.                                                   *)

\* the raw query values: absent, or any string of at most MaxLen characters
RawInputs == {Nul} \cup {Str(s) : s \in UNION {[1..n -> Chars] : n \in 0..MaxLen}}

\* the defaults a strategy is configured with
StrategyDefaults(name) ==
    CASE name = "category" ->
            {Nul, Str(<<"a">>), Num(0), Num(5), Str(<<"a", ",", "b">>)}
      [] name = "brands" ->
            {Arr(<<>>), Arr(<<Str(<<"a">>)>>), Arr(<<Num(5), Str(<<"b">>)>>),
             Arr(<<Str(<<>>)>>), Arr(<<Str(<<"a", ",", "b">>)>>)}
      [] name = "price" ->
            {Obj(Nul, Nul), Obj(Num(0), Num(5)), Obj(Str(<<"a">>), Nul),
             Obj(Nul, Str(<<"a", "|", "b">>))}

InitStrategy ==
    \E name \in AllNames :
      \E default \in StrategyDefaults(name), raw \in RawInputs, d \in Delimiters :
        /\ Constructed([[category |-> Nul, brands |-> Arr(<<>>), price |-> Obj(Nul, Nul)]
                           EXCEPT ![name] = default],
                       <<>>, [a \in Aggs |-> NoOptions], "identity")
        /\ rt = [name |-> name, raw |-> raw, d |-> d, phase |-> "input",
                 v |-> Undef, s |-> Undef, v2 |-> Undef]

\* v = parse(r, d), by value
RtParse ==
    /\ rt.phase = "input"
    /\ rt' = [rt EXCEPT !.phase = "parsed",
                        !.v = Deref(ParseQueryParam(filters[rt.name], rt.raw, rt.d, heap),
                                    heap)]
    /\ UNCHANGED <<filters, heap, location, vals, options, hasCallback, processing,
                   pending, solo, lastCall, configured,
                   filterProps, passed>>

\* s = serialize(v, d)
RtSerialize ==
    /\ rt.phase = "parsed"
    /\ rt' = [rt EXCEPT !.phase = "serialized",
                        !.s = SerializeQueryParam(filters[rt.name], rt.v, rt.d, heap)]
    /\ UNCHANGED <<filters, heap, location, vals, options, hasCallback, processing,
                   pending, solo, lastCall, configured,
                   filterProps, passed>>

\* v2 = parse(s, d), by value
RtReparse ==
    /\ rt.phase = "serialized"
    /\ rt' = [rt EXCEPT !.phase = "done",
                        !.v2 = Deref(ParseQueryParam(filters[rt.name], rt.s, rt.d, heap),
                                     heap)]
    /\ UNCHANGED <<filters, heap, location, vals, options, hasCallback, processing,
                   pending, solo, lastCall, configured,
                   filterProps, passed>>

NextStrategy == RtParse \/ RtSerialize \/ RtReparse

SpecStrategy == InitStrategy /\ [][NextStrategy]_vars

----------------------------------------------------------------------------
(* Comparing values *)

\* a scalar by its string form
ScalarForm(x) == IF x.k = "num" THEN Str(String(x)) ELSE x

\* a value with every scalar in its string form
ValueForm(x) ==
    CASE x.k = "arr" -> Arr([i \in 1..Len(x.items) |-> ScalarForm(x.items[i])])
      [] x.k = "obj" -> Obj(ScalarForm(x.from), ScalarForm(x.to))
      [] OTHER -> ScalarForm(x)

Contains(s, c) == \E i \in 1..Len(s) : s[i] = c

\* the string form of scalar x contains the delimiter character
HasDelimiter(x, d) == x.k \in {"str", "num"} /\ Contains(String(x), d[1])

\* no element of an array default and no end of a range default contains d
DelimiterFree(default, d) ==
    CASE default.k = "arr" ->
            \A i \in 1..Len(default.items) : ~HasDelimiter(default.items[i], d)
      [] default.k = "obj" ->
            ~HasDelimiter(default.from, d) /\ ~HasDelimiter(default.to, d)
      [] OTHER -> TRUE

\* filters[name].serializeQueryParam(this[name], options.delimiter) of aggregate a
SerializedOf(a, name) ==
    SerializeQueryParam(filters[name], vals[a][name], options[a].delimiter, heap)

\* the key a name is serialized under
ObjectKey(name, transformKeys) ==
    IF transformKeys THEN TransformKey(filters[name], name) ELSE name

\* the registered names whose serialization is not absent, in registry order
NotAbsent(a) ==
    LET Present(name) == SerializedOf(a, name) # Nul
    IN  SelectSeq(filterKeys, Present)

\* the registered names whose serialization is neither absent nor empty
NotEmpty(a) ==
    LET Present(name) == SerializedOf(a, name) \notin {Nul, Str(<<>>)}
    IN  SelectSeq(filterKeys, Present)

\* one entry for each of the names, in their order
EntrySeq(a, names, transformKeys) ==
    [i \in 1..Len(names) |->
        Pair(ObjectKey(names[i], transformKeys), SerializedOf(a, names[i]).s)]

\* the keys of a query object, in its order
KeysIn(obj) == [i \in 1..Len(obj) |-> obj[i].key]

\* the entries of a query object
Entries(obj) == {obj[i] : i \in 1..Len(obj)}

\* no key occurs twice
DistinctKeys(obj) ==
    \A i, j \in 1..Len(obj) : obj[i].key = obj[j].key => i = j

\* key occurs in query string loc
InQuery(loc, key) == \E i \in 1..Len(loc) : loc[i].key = key

\* the position of the first occurrence of key in query string loc
FirstAt(loc, key) ==
    CHOOSE i \in 1..Len(loc) :
        loc[i].key = key /\ \A j \in 1..(i - 1) : loc[j].key # key

\* the position in the registry of the name serialized under key
RegistryAt(key, transformKeys) ==
    CHOOSE n \in 1..Len(filterKeys) : ObjectKey(filterKeys[n], transformKeys) = key

\* where the first part of string s ends: the position of the first delimiter
\* character, or one past the end
Cut(s, d) ==
    IF Contains(s, d[1])
    THEN CHOOSE i \in 1..Len(s) : s[i] = d[1] /\ \A j \in 1..(i - 1) : s[j] # d[1]
    ELSE Len(s) + 1

\* the part of s before the first delimiter, and what follows that delimiter
FirstPart(s, d) == SubSeq(s, 1, Cut(s, d) - 1)
AfterFirst(s, d) == SubSeq(s, Cut(s, d) + 1, Len(s))

\* a part if it is not empty, the fallback otherwise
PartOr(part, fallback) == IF part = <<>> THEN fallback ELSE Str(part)

\* the text of a scalar in a joined string: nothing for null and undefined
Text(x) ==
    CASE x.k = "str" -> x.s
      [] x.k = "num" -> <<Digits[x.n + 1]>>
      [] OTHER -> <<>>

RECURSIVE Joined(_, _)
\* the texts of a non-empty sequence of scalars with d between them, built from
\* the last element backwards
Joined(items, d) ==
    IF Len(items) = 1 THEN Text(items[1])
    ELSE Joined(SubSeq(items, 1, Len(items) - 1), d) \o d \o Text(items[Len(items)])

----------------------------------------------------------------------------
(* Claims *)

\* C1 as stated: for every strategy, default, delimiter and raw input,
\* parse(serialize(parse(r, d), d), d) equals parse(r, d), scalars by string form.
C1_RoundTripEveryDefault ==
    rt.phase = "done" => ValueForm(rt.v2) = ValueForm(rt.v)

\* C1 amended: the round trip holds whenever no element of a multiple default and
\* no end of a range default contains the (one-character) delimiter.
C1_RoundTrip ==
    (rt.phase = "done" /\ DelimiterFree(configured[rt.name], rt.d))
        => ValueForm(rt.v2) = ValueForm(rt.v)

\* C1 witness: a range parsed from one part only, its other end taken from a
\* numeric default, has gone through serialize and parse again.
C1_Witness ==
    /\ rt.phase = "done"
    /\ rt.name = "price"
    /\ rt.raw = Str(<<"a">>)
    /\ rt.v = Obj(Str(<<"a">>), Num(5))
    /\ rt.s = Str(<<"a", ",", "5">>)
    /\ rt.v2 = Obj(Str(<<"a">>), Str(<<"5">>))

\* C2: after clear(name) on a multiple or range filter the stored value is not the
\* instance held as the strategy's defaultValue.
C2_ClearedValueIsFreshCopy ==
    (lastCall.op \in {"clear", "clearAll"} /\ ~lastCall.threw) =>
        \A i \in 1..Len(lastCall.keys) :
            lastCall.keys[i] \in RefNames =>
                vals[lastCall.agg][lastCall.keys[i]]
                    # filters[lastCall.keys[i]].defaultValue

\* C3: no step of aggregate 1 changes a value of aggregate 2 or the contents of a
\* strategy's defaultValue.
C3_NoSharedMutableState ==
    [][/\ \A name \in NameSet :
             Deref(vals'[2][name], heap') = Deref(vals[2][name], heap)
       /\ \A name \in RefNames :
             heap'[DefaultAddr(name)] = heap[DefaultAddr(name)]]_vars

\* C4: whenever no callback promise is outstanding, processing is false.
C4_ProcessingOnlyWhileOutstanding ==
    \A a \in Aggs : pending[a] = 0 => ~processing[a]

C7_EveryGetInvokesOnce ==
    \A a \in Aggs :
        (lastCall.op = "get" /\ lastCall.agg = a /\ OnApply(options[a]) # "undefined")
            => /\ lastCall.calls = 1
               /\ lastCall.arg =
                     IF options[a].preserveQueryOrder
                     THEN ToOrderedQueryObject(vals[a], heap, options[a], location, TRUE)
                     ELSE ToQueryObject(vals[a], heap, options[a], TRUE)

\* C7 witness: a get() started while another was outstanding, and passed the
\* ordered object, which differs from the registry-ordered one.
C7_Witness ==
    /\ lastCall.op = "get" /\ lastCall.calls = 1
    /\ pending[1] = 2
    /\ options[1].preserveQueryOrder
    /\ lastCall.arg # ToQueryObject(vals[1], heap, options[1], TRUE)

\* C8: a callback that returns no promise runs with processing true, and processing
\* is false when get() returns.
C8_SyncCallback ==
    (lastCall.calls = 1 /\ lastCall.kind = "sync")
        => lastCall.procAtCall /\ ~processing[lastCall.agg]

\* C8 witness: get() with a synchronous callback has returned.
C8_Witness ==
    /\ lastCall.op = "get" /\ lastCall.kind = "sync" /\ lastCall.calls = 1
    /\ lastCall.procAtCall /\ ~processing[1]

\* C9: get() without a callback throws nothing, warns, invokes nothing and leaves
\* values, options and processing as they were.
C9_GetWithoutCallback ==
    [][\A a \in Aggs :
          (lastCall'.op = "get" /\ lastCall'.agg = a /\ OnApply(options[a]) = "undefined")
              => /\ lastCall'.warned /\ lastCall'.calls = 0 /\ ~lastCall'.threw
                 /\ UNCHANGED <<vals, heap, options, processing, pending>>]_vars

\* C9 witness: get() without a callback has warned while processing was true.
C9_Witness ==
    lastCall.op = "get" /\ lastCall.warned /\ processing[1] /\ pending[1] = 1

\* C10: clear() and clearAll() invoke the callback at most once; with triggerApply
\* and a callback configured, exactly once, with the serialization after the resets.
C10_ClearAppliesOnce ==
    \A a \in Aggs :
        (lastCall.op \in {"clear", "clearAll"} /\ lastCall.agg = a) =>
            /\ lastCall.calls <= 1
            /\ ( /\ lastCall.shouldGet
                 /\ OnApply(options[a]) # "undefined"
                 /\ lastCall.keys # <<>>
                 /\ \A i \in 1..Len(lastCall.keys) : lastCall.keys[i] \in NameSet )
               => /\ lastCall.calls = 1
                  /\ lastCall.arg = GetArg(vals[a], heap, options[a], location)

\* C11: after clear(names, _) with registered names, every name in names holds, by
\* value, the default its strategy was configured with, and every other registered
\* name holds the value it held before.
C11_ClearRestoresConfiguredDefault ==
    [][(lastCall'.op \in {"clear", "clearAll"} /\ KeySet(lastCall'.keys) \subseteq NameSet)
          => \A name \in NameSet :
                Deref(vals'[lastCall'.agg][name], heap') =
                    IF name \in KeySet(lastCall'.keys)
                    THEN configured[name]
                    ELSE Deref(vals[lastCall'.agg][name], heap)]_vars

\* C12: clear with an empty name list, and so clearAll() on an empty registry,
\* changes no value and invokes no callback, whatever triggerApply is and whether
\* or not a callback is configured.
C12_ClearNothing ==
    [][(lastCall'.op \in {"clear", "clearAll"} /\ lastCall'.keys = <<>>)
          => /\ lastCall'.calls = 0 /\ ~lastCall'.threw /\ ~lastCall'.warned
             /\ UNCHANGED <<vals, heap, options, processing, pending>>]_vars

\* C12 witness: clearAll() on an aggregate without filters, constructed with a
\* callback, has returned without invoking it.
C12_Witness ==
    /\ lastCall.op = "clearAll" /\ lastCall.agg = 1 /\ lastCall.shouldGet
    /\ NameSet = {} /\ lastCall.keys = <<>>
    /\ hasCallback[1] /\ OnApply(options[1]) = "sync"
    /\ lastCall.calls = 0

\* C13: has(name, candidate) with a name that is not registered throws nothing,
\* returns false and emits a diagnostic.
C13_HasUnregisteredIsFalse ==
    (lastCall.op = "has" /\ lastCall.keys[1] \notin NameSet)
        => ~lastCall.threw /\ ~lastCall.result /\ lastCall.warned

\* C14: clear with a name that is not registered, alone or in a list with registered
\* names, throws nothing and does not leave some of the listed registered names
\* reset and others not.
C14_ClearUnregisteredIsNoOp ==
    [][(lastCall'.op = "clear" /\ ~(KeySet(lastCall'.keys) \subseteq NameSet))
          => /\ ~lastCall'.threw
             /\ \/ vals'[lastCall'.agg] = vals[lastCall'.agg]
                \/ \A name \in KeySet(lastCall'.keys) \cap NameSet :
                      vals'[lastCall'.agg][name] = ResetValue(name)]_vars

\* C15 as stated: toQueryObject(transformKeys) holds, in registry order, exactly one
\* entry for each registered name whose serialization is not absent, under the
\* transformed name if transformKeys and under the raw name otherwise.
C15_EntryForEveryNonAbsent ==
    \A a \in Acting, transformKeys \in BOOLEAN :
        ToQueryObject(vals[a], heap, options[a], transformKeys)
            = EntrySeq(a, NotAbsent(a), transformKeys)

\* C15 amended: toQueryObject(transformKeys) holds, in registry order, exactly one
\* entry for each registered name whose serialization is neither absent nor the
\* empty string, under the transformed name if transformKeys and under the raw name
\* otherwise.
C15_EntryForEveryNonEmpty ==
    \A a \in Acting, transformKeys \in BOOLEAN :
        ToQueryObject(vals[a], heap, options[a], transformKeys)
            = EntrySeq(a, NotEmpty(a), transformKeys)

\* C15 witness: brands was set to [""], which serializes to the empty string; under
\* the wrapping key transformer the object holds category and price only.
C15_Witness ==
    /\ lastCall.op = "set" /\ lastCall.keys = <<"brands">>
    /\ Deref(vals[1].brands, heap) = Arr(<<Str(<<>>)>>)
    /\ SerializedOf(1, "brands") = Str(<<>>)
    /\ filters.brands.keyTransformer = "wrap"
    /\ ToQueryObject(vals[1], heap, options[1], TRUE)
          = <<Pair("filter[category]", <<"a">>), Pair("filter[price]", <<"1", "|">>)>>
    /\ ToQueryObject(vals[1], heap, options[1], FALSE)
          = <<Pair("category", <<"a">>), Pair("price", <<"1", "|">>)>>

\* C16: whatever the values, the query string the page is at and transformKeys,
\* toOrderedQueryObject holds every key once, and its keys and their values are
\* those of toQueryObject.
C16_OrderedHasSameEntries ==
    \A a \in Acting, transformKeys \in BOOLEAN :
        LET ordered == ToOrderedQueryObject(vals[a], heap, options[a], location,
                                            transformKeys)
        IN  /\ DistinctKeys(ordered)
            /\ Entries(ordered)
                  = Entries(ToQueryObject(vals[a], heap, options[a], transformKeys))

C18_ConstructedFromQuery ==
    lastCall.op = "none" =>
        /\ \A a \in Aggs, n \in NameSet :
              Deref(vals[a][n], heap) =
                  Deref(ParseQueryParam(filters[n],
                                        QueryGet(location, TransformKey(filters[n], n)),
                                        options[a].delimiter, heap),
                        heap)
        /\ ( /\ location = <<Pair("category", <<"a">>),
                              Pair("brands", <<"a", ",", "b">>)>>
             /\ \A n \in NameSet : filters[n].keyTransformer = "identity" )
           => /\ vals[1].category = Str(<<"a">>)
              /\ Deref(vals[1].brands, heap) = Arr(<<Str(<<"a">>), Str(<<"b">>)>>)
              /\ Deref(vals[2].brands, heap) = Arr(<<Str(<<"a", ",", "b">>)>>)
              /\ Deref(vals[1].price, heap) = configured.price
        /\ location = <<>> =>
              \A a \in Aggs, n \in NameSet : Deref(vals[a][n], heap) = configured[n]

\* C18 witness: constructed under the wrapping key transformer at
\* filter[brands]=b,a&brands=a&filter[category]=a, the aggregate holds brands
\* ["b", "a"] and category "a".
C18_Witness ==
    /\ lastCall.op = "none"
    /\ filters.brands.keyTransformer = "wrap"
    /\ QueryGet(location, "filter[brands]") = Str(<<"b", ",", "a">>)
    /\ QueryGet(location, "brands") = Str(<<"a">>)
    /\ Deref(vals[1].brands, heap) = Arr(<<Str(<<"b">>), Str(<<"a">>)>>)
    /\ Deref(vals[2].brands, heap) = Arr(<<Str(<<"b", ",", "a">>)>>)
    /\ vals[1].category = Str(<<"a">>)

C20_SetOptionsMerges ==
    [][\A a \in Aggs :
          (lastCall'.op = "setOptions" /\ lastCall'.agg = a) =>
              /\ \A f \in DOMAIN options[a] :
                    options'[a][f] = IF f \in DOMAIN lastCall'.newOptions
                                     THEN lastCall'.newOptions[f]
                                     ELSE options[a][f]
              /\ DOMAIN options'[a] = DOMAIN options[a]
              /\ \A b \in Aggs \ {a} : options'[b] = options[b]
              /\ UNCHANGED <<vals, heap, processing, pending>>
              /\ LET brands == Deref(vals'[a].brands, heap')
                     queryObject == ToQueryObject(vals'[a], heap', options'[a], TRUE)
                 IN  (brands.k = "arr" /\ Len(brands.items) = 2) =>
                        /\ HasKey(queryObject, "brands")
                        /\ ValueOf(queryObject, "brands")
                              = String(brands.items[1]) \o options'[a].delimiter
                                    \o String(brands.items[2])]_vars

\* C20 witness: at category=a&brands=a,b, while a callback's promise is
\* outstanding, setOptions({delimiter: '|'}) has left brands ["a", "b"],
\* processing and the callback as they were, and toQueryObject gives "a|b".
C20_Witness ==
    /\ lastCall.op = "setOptions" /\ lastCall.newOptions = [delimiter |-> <<"|">>]
    /\ Deref(vals[1].brands, heap) = Arr(<<Str(<<"a">>), Str(<<"b">>)>>)
    /\ processing[1] /\ pending[1] = 1
    /\ OnApply(options[1]) = "async" /\ options[1].preserveQueryOrder = FALSE
    /\ ValueOf(ToQueryObject(vals[1], heap, options[1], TRUE), "brands")
          = <<"a", "|", "b">>

\* C21: a change of the query string after construction changes no value, no
\* result of toQueryObject, of has and of clear, and not the entries of
\* toOrderedQueryObject, only their order.
C21_QueryReadOnce ==
    [][lastCall'.op = "navigate" =>
          /\ vals' = vals /\ heap' = heap
          /\ \A a \in Aggs, transformKeys \in BOOLEAN :
                /\ ToQueryObject(vals'[a], heap', options'[a], transformKeys)
                      = ToQueryObject(vals[a], heap, options[a], transformKeys)
                /\ Entries(ToOrderedQueryObject(vals'[a], heap', options'[a],
                                                location', transformKeys))
                      = Entries(ToOrderedQueryObject(vals[a], heap, options[a],
                                                     location, transformKeys))
          /\ \A a \in Aggs, name \in NameSet, value \in Candidates :
                HasValue(filters'[name], vals'[a][name], value, heap')
                    = HasValue(filters[name], vals[a][name], value, heap)
          /\ \A a \in Aggs, keys \in ClearKeys :
                ClearLoop(vals'[a], keys) = ClearLoop(vals[a], keys)]_vars

\* the key the factory's transformer kt gives a name
SharedKey(kt, name) == IF kt = "wrap" THEN Wrap(name) ELSE name

C23_ParseFailsSoft ==
    rt.phase \in {"parsed", "serialized", "done"} =>
        LET default == configured[rt.name]
        IN  IF rt.raw \in {Nul, Str(<<>>)} THEN rt.v = default
            ELSE CASE rt.name = "category" -> rt.v = rt.raw
                   [] rt.name = "brands" ->
                        /\ rt.v.k = "arr" /\ Len(rt.v.items) >= 1
                        /\ rt.v.items[1] = Str(FirstPart(rt.raw.s, rt.d))
                        /\ \A i \in 1..Len(rt.v.items) :
                              /\ rt.v.items[i].k = "str"
                              /\ ~Contains(rt.v.items[i].s, rt.d[1])
                   [] rt.name = "price" ->
                        LET rest == AfterFirst(rt.raw.s, rt.d)
                        IN  rt.v = Obj(PartOr(FirstPart(rt.raw.s, rt.d), default.from),
                                       PartOr(FirstPart(rest, rt.d), default.to))

\* C23 witness: a range with default {0, 5} parsed from ",b": from is the
\* default's, to is kept.
C23_Witness ==
    /\ rt.phase = "parsed" /\ rt.name = "price"
    /\ configured.price = Obj(Num(0), Num(5))
    /\ rt.raw = Str(<<",", "b">>) /\ rt.d = <<",">>
    /\ rt.v = Obj(Num(0), Str(<<"b">>))

\* C24: serialize gives absent for a falsy single value, for an empty sequence and
\* for a range with both ends absent; otherwise it gives the single value as a
\* string, the elements joined by the delimiter, or from and to joined by the
\* delimiter.
C24_SerializeAbsentOrJoined ==
    rt.phase \in {"serialized", "done"} =>
        CASE rt.name = "category" ->
                rt.s = IF Falsy(rt.v) THEN Nul ELSE Str(Text(rt.v))
          [] rt.name = "brands" ->
                rt.s = IF rt.v.items = <<>> THEN Nul ELSE Str(Joined(rt.v.items, rt.d))
          [] rt.name = "price" ->
                rt.s = IF rt.v.from = Nul /\ rt.v.to = Nul THEN Nul
                       ELSE Str(Text(rt.v.from) \o rt.d \o Text(rt.v.to))

\* C24 witness: a range with from "a" and an absent to is serialized as "a|".
C24_Witness ==
    /\ rt.phase = "serialized" /\ rt.name = "price"
    /\ rt.v = Obj(Str(<<"a">>), Nul) /\ rt.d = <<"|">>
    /\ rt.s = Str(<<"a", "|">>)

\* C25: has(name, candidate) for a registered name throws nothing and returns
\* whether the value matches: for a single filter the value is there and reads as
\* the candidate, for a multiple filter the candidate is an element, for a range
\* filter the candidate reads as from or as to; values, options and processing
\* stay as they were.
C25_HasMatches ==
    [][(lastCall'.op = "has" /\ lastCall'.keys[1] \in NameSet) =>
          LET name == lastCall'.keys[1]
              value == Deref(vals[lastCall'.agg][name], heap)
              candidate == lastCall'.cand
              Reads(x) == x.k \in {"str", "num"} /\ Text(x) = Text(candidate)
          IN  /\ ~lastCall'.threw
              /\ lastCall'.result =
                    CASE name = "category" -> Reads(value)
                      [] name = "brands" ->
                            candidate \in {value.items[i] : i \in 1..Len(value.items)}
                      [] name = "price" -> Reads(value.from) \/ Reads(value.to)
              /\ UNCHANGED <<vals, heap, options, processing, pending>>]_vars

\* C25 witness: price was parsed from a,b; has(price, "b") has returned true.
C25_Witness ==
    /\ lastCall.op = "has" /\ lastCall.keys = <<"price">>
    /\ QueryGet(location, "price") = Str(<<"a", ",", "b">>)
    /\ Deref(vals[1].price, heap) = Obj(Str(<<"a">>), Str(<<"b">>))
    /\ lastCall.cand = Str(<<"b">>)
    /\ lastCall.result

\* C26: in every reachable state data()[name] equals, by value, the aggregate's
\* current value of name, for every registered name.
C26_DataIsCurrent ==
    \A a \in Acting, name \in NameSet :
        Deref(Data(a)[name], heap) = Deref(vals[a][name], heap)

\* no element of a multiple value and no end of a range value of aggregate a
\* contains the delimiter of its options
NoDelimiterInValues(a) ==
    \A name \in NameSet :
        DelimiterFree(Deref(vals[a][name], heap), options[a].delimiter)

\* C27: an aggregate whose values come from construction and clear, none of them
\* containing the delimiter, and an aggregate constructed from its toSearchParams()
\* with the same registry and delimiter hold the same values, scalars by string
\* form.
C27_AggregateRoundTrip ==
    \A a \in Aggs :
        NoDelimiterInValues(a) =>
            \A name \in NameSet :
                ValueForm(ConstructedAt(a, ToSearchParams(a))[name])
                    = ValueForm(Deref(vals[a][name], heap))

\* C27 witness: under the wrapping key transformer, category was cleared to its
\* default "a", brands was read as ["b", "a"], price is the numeric default; the
\* query string built from them gives the same values back, price.from as "1".
C27_Witness ==
    /\ lastCall.op = "clear" /\ lastCall.keys = <<"price", "category">>
    /\ filters.brands.keyTransformer = "wrap"
    /\ Deref(vals[1].brands, heap) = Arr(<<Str(<<"b">>), Str(<<"a">>)>>)
    /\ Deref(vals[1].price, heap) = Obj(Num(1), Nul)
    /\ NoDelimiterInValues(1)
    /\ ToSearchParams(1) = <<Pair("filter[category]", <<"a">>),
                             Pair("filter[brands]", <<"b", ",", "a">>),
                             Pair("filter[price]", <<"1", ",">>)>>
    /\ ConstructedAt(1, ToSearchParams(1)).price = Obj(Str(<<"1">>), Nul)

\* C28: whether clear(names, true) with registered names invokes the callback is
\* decided by the callback configured when clear is called: the callback is
\* invoked exactly when one is configured then, and without one nothing is invoked
\* and no missing-callback diagnostic is emitted.
C28_ClearDecidesAtCallTime ==
    \A a \in Aggs :
        ( /\ lastCall.op = "clear"
          /\ lastCall.agg = a
          /\ lastCall.shouldGet
          /\ lastCall.keys # <<>>
          /\ \A i \in 1..Len(lastCall.keys) : lastCall.keys[i] \in NameSet )
        => /\ (OnApply(options[a]) # "undefined") <=> (lastCall.calls = 1)
           /\ (OnApply(options[a]) = "undefined") => ~lastCall.warned

\* a step in which get() runs, called by the caller or by clear() or clearAll()
ApplyCalled ==
    \/ lastCall'.op = "get"
    \/ lastCall'.op \in {"clear", "clearAll"} /\ (lastCall'.calls = 1 \/ lastCall'.warned)

\* C29: when get() is called only finitely often and every promise returned by the
\* callback settles, processing eventually becomes false and stays false, whether
\* the callbacks succeed or fail.
C29_ProcessingEventuallyFalse ==
    (<>[][~ApplyCalled]_vars) => <>[](~processing[1])

\* the caller's writes: an assignment, an in-place change, setOptions
Writes == {"set", "push", "setOptions"}

\* C30: while a promise returned by the callback is outstanding, assigning or
\* changing a filter value in place and calling setOptions leave processing as it
\* is; the object given to the callback is the serialization of the values at the
\* time of get(), and those writes leave it as it was.
C30_WritesLeaveCallAlone ==
    [][ /\ (lastCall'.op = "get" /\ lastCall'.kind = "async")
           => passed'[1] = IF options[1].preserveQueryOrder
                           THEN ToOrderedQueryObject(vals[1], heap, options[1],
                                                     location, TRUE)
                           ELSE ToQueryObject(vals[1], heap, options[1], TRUE)
        /\ (pending[1] > 0 /\ lastCall'.op \in Writes)
           => /\ processing' = processing
              /\ pending' = pending
              /\ passed' = passed ]_vars

\* C30 witness: with a promise outstanding and processing true, the last step was
\* an in-place push, and the object given to the callback is no longer what
\* the values serialize to.
C30_Witness ==
    /\ pending[1] > 0
    /\ processing[1]
    /\ lastCall.op = "push"
    /\ passed[1] # GetArg(vals[1], heap, options[1], location)
    /\ passed[1] # <<>>

====
